---- MODULE Spec2Model ----
(***************************************************************************)
(* Weekday occurrence counter of task_02.rs: WeekdaysCounter::count and    *)
(* count_sundays, over chrono's NaiveDate (proleptic Gregorian calendar);  *)
(* the ordinal numbers of task_01 and the obfuscation of task_03.          *)
(***************************************************************************)
EXTENDS Integers, Sequences, FiniteSets, TLC

VARIABLES
    date_from,    \* count_sundays: first input string (a sequence of characters)
    date_to,      \* count_sundays: second input string
    start_date,   \* WeekdaysCounter.start_date
    end_date,     \* WeekdaysCounter.end_date
    day_of_week,  \* argument of the last call of count
    input,        \* argument of task_01's ordinal functions and of obfuscate
    result        \* what the last call returned

vars == <<date_from, date_to, start_date, end_date, day_of_week, input, result>>

------------------------------------------------------------------------------
(* Bounds of the model *)

\* number of consecutive calendar years the dates are drawn from
NumYears == 2

\* the years of the model; the first one is a leap year
Years == 2020..(2020 + NumYears - 1)

\* the months the dates are drawn from: the head of a year (with the leap
\* day) and its last month (so that ranges cross the year boundary)
Months == {1, 2, 12}

------------------------------------------------------------------------------
(* chrono::NaiveDate and chrono::Weekday *)

WeekdaysFromMonday == <<"Mon", "Tue", "Wed", "Thu", "Fri", "Sat", "Sun">>

Weekday == { WeekdaysFromMonday[i] : i \in 1..7 }

num_days_from_monday(w) ==
    CASE w = "Mon" -> 0
      [] w = "Tue" -> 1
      [] w = "Wed" -> 2
      [] w = "Thu" -> 3
      [] w = "Fri" -> 4
      [] w = "Sat" -> 5
      [] w = "Sun" -> 6

is_leap_year(y) == (y % 4 = 0 /\ y % 100 # 0) \/ y % 400 = 0

days_in_month(y, m) ==
    IF m = 2 THEN (IF is_leap_year(y) THEN 29 ELSE 28)
    ELSE IF m \in {4, 6, 9, 11} THEN 30 ELSE 31

\* NaiveDate::from_ymd_opt: the calendar dates that exist
valid_ymd(y, m, d) ==
    /\ m \in 1..12
    /\ d >= 1
    /\ d <= days_in_month(y, m)

NaiveDate(y, m, d) == [year |-> y, month |-> m, day |-> d]

\* the days of a common year that precede each month
CumulativeDays == <<0, 31, 59, 90, 120, 151, 181, 212, 243, 273, 304, 334>>

days_before_month(y, m) ==
    CumulativeDays[m] + (IF m > 2 /\ is_leap_year(y) THEN 1 ELSE 0)

\* Datelike::ordinal: the day of the year, from 1
ordinal(date) == days_before_month(date.year, date.month) + date.day

\* Datelike::num_days_from_ce: days since 31 December of 1 BCE (1 January of
\* year 1 is day 1)
num_days_from_ce(date) ==
    LET y == date.year - 1
    IN  365 * y + (y \div 4) - (y \div 100) + (y \div 400) + ordinal(date)

\* Datelike::weekday: 1 January of year 1 is a Monday
weekday(date) ==
    LET n == (num_days_from_ce(date) - 1) % 7
    IN  WeekdaysFromMonday[n + 1]

------------------------------------------------------------------------------
(* Strings are sequences of characters. NaiveDate::parse_from_str with the  *)
(* format "%d-%m-%Y": a day of at most two digits, '-', a month of at most *)
(* two digits, '-', a year of at most four digits, and nothing after it.   *)
(* The strings of the model hold no sign and no white space.               *)

DigitChars == <<"0", "1", "2", "3", "4", "5", "6", "7", "8", "9">>

IsDigit(c) == \E i \in 1..10 : DigitChars[i] = c

DigitValue(c) == (CHOOSE i \in 1..10 : DigitChars[i] = c) - 1

\* the number a string of digits spells
RECURSIVE ToNumber(_)
ToNumber(s) ==
    IF s = <<>> THEN 0
    ELSE 10 * ToNumber(SubSeq(s, 1, Len(s) - 1)) + DigitValue(s[Len(s)])

Err(e) == [kind |-> "Err", error |-> e]

\* scan::number: the digits at the head of s, at least min and at most max
scan_number(s, min, max) ==
    LET window == SubSeq(s, 1, IF Len(s) > max THEN max ELSE Len(s))
        stops == { i \in 1..Len(window) : ~IsDigit(window[i]) }
        upto == IF stops = {} THEN Len(window)
                ELSE (CHOOSE i \in stops : \A j \in stops : i <= j) - 1
    IN  IF upto < min
        THEN Err(IF window = <<>> THEN "TooShort" ELSE "Invalid")
        ELSE [kind |-> "Ok",
              rest |-> SubSeq(s, upto + 1, Len(s)),
              value |-> ToNumber(SubSeq(s, 1, upto))]

\* a literal character of the format
\* a variant that takes any character for the separator
scan_literal_AnySeparator(s, c) ==
    IF Len(s) < 1 THEN Err("TooShort")
    ELSE [kind |-> "Ok", rest |-> Tail(s)]

scan_literal(s, c) ==
    IF Len(s) < 1 THEN Err("TooShort")
    ELSE IF s[1] # c THEN Err("Invalid")
    ELSE [kind |-> "Ok", rest |-> Tail(s)]

\* NaiveDate::parse_from_str(s, "%d-%m-%Y")
parse_from_str(s) ==
    LET day == scan_number(s, 1, 2)
    IN  IF day.kind = "Err" THEN day ELSE
    LET sep1 == scan_literal(day.rest, "-")
    IN  IF sep1.kind = "Err" THEN sep1 ELSE
    LET month == scan_number(sep1.rest, 1, 2)
    IN  IF month.kind = "Err" THEN month ELSE
    LET sep2 == scan_literal(month.rest, "-")
    IN  IF sep2.kind = "Err" THEN sep2 ELSE
    LET year == scan_number(sep2.rest, 1, 4)
    IN  IF year.kind = "Err" THEN year
        ELSE IF year.rest # <<>> THEN Err("TooLong")
        ELSE IF ~valid_ymd(year.value, month.value, day.value)
        THEN Err("OutOfRange")
        ELSE [kind |-> "Ok",
              date |-> NaiveDate(year.value, month.value, day.value)]

------------------------------------------------------------------------------
(* Rust integer arithmetic of count. A 32-bit value is held as the signed  *)
(* number with the same bits: a u32 above i32::MAX (the wrapped image of a *)
(* negative number) is held as that negative number.                       *)

\* `x as i32` of a u32, `x as u32` of an i32: the bits are kept
as_i32(x) == x
as_u32(x) == x

\* a < b of two u32
lt_u32(a, b) == IF (a < 0) = (b < 0) THEN a < b ELSE b < 0

\* What count hands back: a number, or the outcome of a u32 subtraction whose
\* right operand is larger than its left one (a panic where overflow checks
\* are compiled in, as under `cargo test`; a wrapped difference elsewhere).
Value(v) == [kind |-> "value", value |-> v]
Underflow == [kind |-> "underflow"]

\* a - b in u32
sub_u32(a, b) == IF lt_u32(a, b) THEN Underflow ELSE Value(a - b)

------------------------------------------------------------------------------
(* WeekdaysCounter *)

WeekdaysCounter_new(s, e) == [start_date |-> s, end_date |-> e]

\* Variants of the steps of count, each with one slip.
EndBeforeStart_Never(year_day_from, year_day_to) == FALSE

EndBeforeStart_Reversed(year_day_from, year_day_to) ==
    year_day_from < year_day_to

StartOffset_Abs(sign_start_diff) ==
    IF sign_start_diff >= 0 THEN sign_start_diff ELSE 0 - sign_start_diff

OffsetOutOfRange_OrEqual(num_days, start_offset) == num_days <= start_offset

OffsetOutOfRange_Never(num_days, start_offset) == FALSE

OffsetOutOfRange_WithinWeek(num_days, start_offset) ==
    num_days % 7 < start_offset

FullWeeks_NoLastDay(diff) == diff \div 7

FullWeeks_RoundUp(diff) == ((diff + 6) \div 7) + 1

FullWeeks_LastDayTwice(diff) == (diff \div 7) + 2

\* the guard of the first early return
EndBeforeStart(year_day_from, year_day_to) == lt_u32(year_day_to, year_day_from)

\* the normalisation of the signed weekday difference
StartOffset(sign_start_diff) ==
    IF sign_start_diff >= 0 THEN sign_start_diff ELSE 7 + sign_start_diff

\* the guard of the second early return
OffsetOutOfRange(num_days, start_offset) == as_i32(num_days) < start_offset

\* the final expression, on the difference num_days - start_offset
FullWeeks(diff) == (diff \div 7) + 1

\* WeekdaysCounter::count
count(self, dow) ==
    LET year_day_from == ordinal(self.start_date)
        year_day_to   == ordinal(self.end_date)
    IN  IF EndBeforeStart(year_day_from, year_day_to)
        THEN Value(0)
        ELSE
          LET num_days == sub_u32(year_day_to, year_day_from)
              sign_start_diff ==
                  num_days_from_monday(dow)
                    - num_days_from_monday(weekday(self.start_date))
              start_offset == StartOffset(sign_start_diff)
          IN  IF num_days = Underflow
              THEN Underflow
              ELSE IF OffsetOutOfRange(num_days.value, start_offset)
              THEN Value(0)
              ELSE
                LET diff == sub_u32(num_days.value, as_u32(start_offset))
                IN  IF diff = Underflow
                    THEN Underflow
                    ELSE Value(FullWeeks(diff.value))

------------------------------------------------------------------------
(* State machine: a counter is constructed on two dates, then count is     *)
(* called on it with a weekday.                                            *)

NoInput == <<"none">>
NoDate == [kind |-> "none"]
NoWeekday == "none"
NoResult == [kind |-> "none"]
NoArgument == [kind |-> "none"]

Dates ==
    { dt \in [year : Years, month : Months, day : 1..31] :
        valid_ymd(dt.year, dt.month, dt.day) }

Init ==
    /\ date_from = NoInput
    /\ date_to = NoInput
    /\ start_date \in Dates
    /\ end_date \in Dates
    /\ day_of_week = NoWeekday
    /\ input = NoArgument
    /\ result = NoResult

\* WeekdaysCounter::new(start_date, end_date).count(w): new and count are
\* private, and every caller counts once on a counter it has just built
Count(w) ==
    /\ date_from = NoInput
    /\ result = NoResult
    /\ day_of_week' = w
    /\ result' = count(WeekdaysCounter_new(start_date, end_date), w)
    /\ UNCHANGED <<date_from, date_to, start_date, end_date, input>>

Next == \E w \in Weekday : Count(w)

Spec == Init /\ [][Next]_vars

------------------------------------------------------------------------------
(* State machine of count_sundays: called once on two strings.             *)

\* "DD-MM-YYYY" of three numbers, zero padded
Pad(n, width) ==
    [i \in 1..width |-> DigitChars[((n \div (10 ^ (width - i))) % 10) + 1]]

FormatPadded(d, m, y) == Pad(d, 2) \o <<"-">> \o Pad(m, 2) \o <<"-">> \o Pad(y, 4)

\* the same without the zero padding of day and month
Unpadded(n) == IF n < 10 THEN Pad(n, 1) ELSE Pad(n, 2)

FormatUnpadded(d, m, y) ==
    Unpadded(d) \o <<"-">> \o Unpadded(m) \o <<"-">> \o Pad(y, 4)

\* day, month and year numbers written as "DD-MM-YYYY": the dates of the
\* model and, around them, days and months that do not exist
PaddedInputs ==
    { FormatPadded(d, m, y) : d \in 0..32, m \in Months \cup {13}, y \in Years }

UnpaddedInputs ==
    { FormatUnpadded(d, m, y) : d \in {1, 9, 10}, m \in {1, 2}, y \in Years }

\* strings of other shapes
OtherInputs ==
    { <<>>,
      <<"2", "0", "2", "0", "-", "0", "1", "-", "0", "1">>,
      <<"0", "1", "/", "0", "1", "/", "2", "0", "2", "0">>,
      <<"0", "1", "-", "0", "1">>,
      <<"0", "1", "-", "0", "1", "-">>,
      <<"a", "b", "-", "0", "1", "-", "2", "0", "2", "0">>,
      <<"0", "0", "1", "-", "0", "1", "-", "2", "0", "2", "0">>,
      <<"0", "1", "-", "0", "1", "-", "2", "0", "2", "0", "1">>,
      <<"0", "1", "-", "0", "1", "-", "2", "0", "2", "0", "x">>,
      <<"0", "1", "-", "0", "1", "-", "2", "0">> }

Inputs == PaddedInputs \cup UnpaddedInputs \cup OtherInputs

InitSundays ==
    /\ date_from \in Inputs
    /\ date_to \in Inputs
    /\ start_date = NoDate
    /\ end_date = NoDate
    /\ day_of_week = NoWeekday
    /\ input = NoArgument
    /\ result = NoResult

Ok(v) == [kind |-> "Ok", value |-> v]

\* count_sundays((from, to)): what it returns, and the counter it builds
\* when both strings parse
count_sundays(from, to) ==
    LET start == parse_from_str(from)
    IN  IF start.kind = "Err"
        THEN [result |-> start, start_date |-> NoDate, end_date |-> NoDate,
              day_of_week |-> NoWeekday]
        ELSE
    LET end == parse_from_str(to)
    IN  IF end.kind = "Err"
        THEN [result |-> end, start_date |-> NoDate, end_date |-> NoDate,
              day_of_week |-> NoWeekday]
        ELSE
    LET r == count(WeekdaysCounter_new(start.date, end.date), "Sun")
    IN  [result |-> IF r = Underflow THEN Underflow ELSE Ok(r.value),
         start_date |-> start.date, end_date |-> end.date,
         day_of_week |-> "Sun"]

CountSundays ==
    /\ date_from # NoInput
    /\ result = NoResult
    /\ LET call == count_sundays(date_from, date_to)
       IN  /\ result' = call.result
           /\ start_date' = call.start_date
           /\ end_date' = call.end_date
           /\ day_of_week' = call.day_of_week
    /\ UNCHANGED <<date_from, date_to, input>>

NextSundays == CountSundays

SpecSundays == InitSundays /\ [][NextSundays]_vars

------------------------------------------------------------------------------
(* task_01: ordinal numbers. Ordinal<T> wraps an integer of one of the    *)
(* primitive types; simple.rs wraps any value, wrapped.rs and wrapped2.rs  *)
(* only through a checked constructor.                                     *)

\* the largest absolute value of the integers wrapped
MaxOrdinal == 130

IntTypes == {"i8", "i16", "i32", "i64", "u8", "u16", "u32", "u64"}

Unsigned(t) == t \in {"u8", "u16", "u32", "u64"}

\* the values of a type, as far as the model goes
InType(t, v) ==
    /\ Unsigned(t) => v >= 0
    /\ t = "i8" => (v >= -128 /\ v <= 127)
    /\ t = "u8" => v <= 255
    /\ t = "i16" => (v >= -32768 /\ v <= 32767)
    /\ t = "u16" => v <= 65535

\* the decimal digits of a natural number
RECURSIVE Digits(_)
Digits(n) ==
    IF n < 10 THEN <<DigitChars[n + 1]>>
    ELSE Digits(n \div 10) \o <<DigitChars[(n % 10) + 1]>>

\* ToString of a primitive integer
to_string(v) == IF v < 0 THEN <<"-">> \o Digits(0 - v) ELSE Digits(v)

\* str::ends_with
ends_with(s, pat) ==
    /\ Len(pat) <= Len(s)
    /\ SubSeq(s, Len(s) - Len(pat) + 1, Len(s)) = pat

\* the tuple struct
Ordinal(v) == [kind |-> "Ordinal", inner |-> v]

\* a variant of the choice of the suffix that forgets 11, 12 and 13
suffix_of_NoTeens(s) ==
    IF ends_with(s, <<"1">>) THEN <<"s", "t">>
    ELSE IF ends_with(s, <<"2">>) THEN <<"n", "d">>
    ELSE IF ends_with(s, <<"3">>) THEN <<"r", "d">>
    ELSE <<"t", "h">>

\* the choice of the suffix in Display::fmt
suffix_of(s) ==
    IF ends_with(s, <<"1">>) /\ ~ends_with(s, <<"1", "1">>) THEN <<"s", "t">>
    ELSE IF ends_with(s, <<"2">>) /\ ~ends_with(s, <<"1", "2">>) THEN <<"n", "d">>
    ELSE IF ends_with(s, <<"3">>) /\ ~ends_with(s, <<"1", "3">>) THEN <<"r", "d">>
    ELSE <<"t", "h">>

\* <Ordinal<T> as Display>::fmt, the same in the three files
fmt_ordinal(self) ==
    LET s == to_string(self.inner)
    IN  s \o suffix_of(s)

\* simple.rs: IntoOrdinal::into_ordinal and ordinal (for i32)
into_ordinal(self) == Ordinal(self)

simple_ordinal(in) == fmt_ordinal(into_ordinal(in))

\* a variant of the check that lets 0 through
try_from_AcceptsZero(value) ==
    IF value < 0
    THEN Err("Ordinal inner value must be greater than zero")
    ELSE Ok(Ordinal(value))

\* wrapped.rs: TryFrom<T> for Ordinal<T>
try_from(value) ==
    IF value <= 0
    THEN Err("Ordinal inner value must be greater than zero")
    ELSE Ok(Ordinal(value))

\* wrapped2.rs: TryIntoOrdinal<T> for T
try_into_ordinal(self) ==
    IF self <= 0
    THEN Err("Ordinal inner value must be greater than zero")
    ELSE Ok(Ordinal(self))

\* wrapped2.rs: ordinal
wrapped2_ordinal(in) ==
    LET res == try_into_ordinal(in)
    IN  IF res.kind = "Ok"
        THEN Ok(fmt_ordinal(res.value))
        ELSE Err("ConvertError")

------------------------------------------------------------------------------
(* State machine of task_01: one of the functions is called on an integer; *)
(* an Ordinal obtained from a checked constructor may then be formatted.   *)

OrdinalInputs ==
    { in \in [typ : IntTypes, value : (0 - MaxOrdinal)..MaxOrdinal] :
        InType(in.typ, in.value) }

InitOrdinal ==
    /\ date_from = NoInput
    /\ date_to = NoInput
    /\ start_date = NoDate
    /\ end_date = NoDate
    /\ day_of_week = NoWeekday
    /\ input \in OrdinalInputs
    /\ result = NoResult

Returned(op, v) == [kind |-> "returned", op |-> op, value |-> v]

OrdinalUnchanged ==
    UNCHANGED <<date_from, date_to, start_date, end_date, day_of_week, input>>

\* simple.rs: Ordinal(input).to_string()
SimpleToString ==
    /\ result = NoResult
    /\ result' = Returned("simple::to_string", fmt_ordinal(Ordinal(input.value)))
    /\ OrdinalUnchanged

\* simple.rs: ordinal(input), IntoOrdinal being implemented for i32
SimpleOrdinal ==
    /\ result = NoResult
    /\ input.typ = "i32"
    /\ result' = Returned("simple::ordinal", simple_ordinal(input.value))
    /\ OrdinalUnchanged

\* wrapped.rs: Ordinal::try_from(input)
TryFrom ==
    /\ result = NoResult
    /\ result' = Returned("wrapped::try_from", try_from(input.value))
    /\ OrdinalUnchanged

\* wrapped2.rs: input.try_into_ordinal()
TryIntoOrdinal ==
    /\ result = NoResult
    /\ result' = Returned("wrapped2::try_into_ordinal",
                          try_into_ordinal(input.value))
    /\ OrdinalUnchanged

\* wrapped2.rs: ordinal(input)
Wrapped2Ordinal ==
    /\ result = NoResult
    /\ result' = Returned("wrapped2::ordinal", wrapped2_ordinal(input.value))
    /\ OrdinalUnchanged

\* wrapped.rs, wrapped2.rs: to_string() of the Ordinal a checked constructor
\* has returned
CheckedToString ==
    /\ result.kind = "returned"
    /\ result.op \in {"wrapped::try_from", "wrapped2::try_into_ordinal"}
    /\ result.value.kind = "Ok"
    /\ result' = Returned("checked::to_string", fmt_ordinal(result.value.value))
    /\ OrdinalUnchanged

NextOrdinal ==
    \/ SimpleToString
    \/ SimpleOrdinal
    \/ TryFrom
    \/ TryIntoOrdinal
    \/ Wrapped2Ordinal
    \/ CheckedToString

SpecOrdinal == InitOrdinal /\ [][NextOrdinal]_vars

------------------------------------------------------------------------------
(* task_03: obfuscation of an email address or a phone number.            *)

\* str::split: the pieces of s between the occurrences of c
RECURSIVE split(_, _)
split(s, c) ==
    LET at == { i \in 1..Len(s) : s[i] = c }
    IN  IF at = {} THEN <<s>>
        ELSE LET i == CHOOSE i \in at : \A j \in at : i <= j
             IN  <<SubSeq(s, 1, i - 1)>> \o split(SubSeq(s, i + 1, Len(s)), c)

\* <Email as FromStr>::from_str
email_from_str(s) ==
    LET parts == split(s, "@")
    IN  IF Len(parts) # 2
        THEN Err("not an email")
        ELSE Ok([local |-> parts[1], domain |-> parts[2]])

\* a variant that puts the stars in a local part of two characters too
fmt_email_StarsFromTwo(self) ==
    LET chars == self.local
        len == Len(chars)
    IN  (IF len > 0 THEN <<chars[1]>> ELSE <<>>)
          \o (IF len >= 2 THEN <<"*", "*", "*", "*", "*">> ELSE <<>>)
          \o (IF len > 1 THEN <<chars[len]>> ELSE <<>>)
          \o <<"@">> \o self.domain

\* <Obfuscated<Email> as Display>::fmt
fmt_email(self) ==
    LET chars == self.local
        len == Len(chars)
    IN  (IF len > 0 THEN <<chars[1]>> ELSE <<>>)
          \o (IF len > 2 THEN <<"*", "*", "*", "*", "*">> ELSE <<>>)
          \o (IF len > 1 THEN <<chars[len]>> ELSE <<>>)
          \o <<"@">> \o self.domain

\* str::trim_start_matches('+')
RECURSIVE trim_start_plus(_)
trim_start_plus(s) ==
    IF s # <<>> /\ s[1] = "+" THEN trim_start_plus(Tail(s)) ELSE s

\* <u64 as FromStr>::from_str: digits, after at most one '+'; the numbers
\* of the model stay below u64::MAX
parse_u64(s) ==
    LET digits == IF s # <<>> /\ s[1] = "+" THEN Tail(s) ELSE s
    IN  IF s = <<>> THEN Err("Empty")
        ELSE IF digits = <<>> \/ \E i \in 1..Len(digits) : ~IsDigit(digits[i])
        THEN Err("InvalidDigit")
        ELSE Ok(ToNumber(digits))

\* the loop of from_str: the numbers of the parts, or the first error
RECURSIVE parse_parts(_)
parse_parts(str_parts) ==
    IF str_parts = <<>> THEN Ok(<<>>)
    ELSE LET a_number == parse_u64(Head(str_parts))
         IN  IF a_number.kind = "Err" THEN a_number
             ELSE LET rest == parse_parts(Tail(str_parts))
                  IN  IF rest.kind = "Err" THEN rest
                      ELSE Ok(<<a_number.value>> \o rest.value)

\* <PhoneNumber as FromStr>::from_str
phone_from_str(s) ==
    LET str_parts == split(trim_start_plus(s), " ")
        parts == parse_parts(str_parts)
    IN  IF parts.kind = "Err" THEN parts
        ELSE Ok([has_plus_prefix |-> (s # <<>> /\ s[1] = "+"),
                 parts |-> parts.value])

\* the numbers as strings, joined with sep
RECURSIVE join(_, _)
join(strs, sep) ==
    IF strs = <<>> THEN <<>>
    ELSE IF Len(strs) = 1 THEN strs[1]
    ELSE strs[1] \o sep \o join(Tail(strs), sep)

number_of_visible == 4

\* the loop over the characters of s from the last to the first, put back
\* in order: `visible` digits have been kept so far
RECURSIVE mask(_, _)
mask(s, visible) ==
    IF s = <<>> THEN <<>>
    ELSE LET ch == s[Len(s)]
             front == SubSeq(s, 1, Len(s) - 1)
         IN  IF IsDigit(ch)
             THEN IF visible < number_of_visible
                  THEN mask(front, visible + 1) \o <<ch>>
                  ELSE mask(front, visible) \o <<"*">>
             ELSE mask(front, visible) \o <<"-">>

\* <Obfuscated<PhoneNumber> as Display>::fmt
fmt_phone(self) ==
    LET s == join([i \in 1..Len(self.parts) |-> to_string(self.parts[i])],
                  <<"-">>)
    IN  (IF self.has_plus_prefix THEN <<"+">> ELSE <<>>) \o mask(s, 0)

\* obfuscate
obfuscate(in) ==
    LET parsed_email == email_from_str(in)
    IN  IF parsed_email.kind = "Ok"
        THEN Ok(fmt_email(parsed_email.value))
        ELSE LET parsed_phone == phone_from_str(in)
             IN  IF parsed_phone.kind = "Ok"
                 THEN Ok(fmt_phone(parsed_phone.value))
                 ELSE Err("UnknownInput")

------------------------------------------------------------------------------
(* State machine of task_03: obfuscate is called on a string.             *)

\* the longest of the strings made of any characters
MaxLen == 4

\* the most digit groups of a phone number, and the most digits of a group
MaxGroups == 3
MaxGroupLen == 2

\* the longest local part of an email address
MaxLocal == 5

Alphabet == {"0", "1", "a", "@", "+", " "}

StringsOver(chars, lens) == UNION { [1..n -> chars] : n \in lens }

\* every string of the alphabet up to MaxLen
AnyInputs == StringsOver(Alphabet, 0..MaxLen)

\* phone numbers: digit groups separated by single spaces, after a '+' or not
PhoneInputs ==
    LET groups == StringsOver({"0", "1"}, 1..MaxGroupLen)
    IN  { prefix \o join(gs, <<" ">>) :
            prefix \in {<<>>, <<"+">>},
            gs \in StringsOver(groups, 1..MaxGroups) }

\* email addresses: a local part, '@' and a domain
EmailInputs ==
    { local \o <<"@">> \o domain :
        local \in StringsOver({"a", "0", "1"}, 1..MaxLocal),
        domain \in {<<>>, <<"a">>, <<"a", " ", "+", "1">>} }

ObfuscateInputs == AnyInputs \cup PhoneInputs \cup EmailInputs

InitObfuscate ==
    /\ date_from = NoInput
    /\ date_to = NoInput
    /\ start_date = NoDate
    /\ end_date = NoDate
    /\ day_of_week = NoWeekday
    /\ input \in ObfuscateInputs
    /\ result = NoResult

Obfuscate ==
    /\ result = NoResult
    /\ result' = Returned("obfuscate", obfuscate(input))
    /\ UNCHANGED <<date_from, date_to, start_date, end_date, day_of_week, input>>

NextObfuscate == Obfuscate

SpecObfuscate == InitObfuscate /\ [][NextObfuscate]_vars

------------------------------------------------------------------------------
(* What the claims speak of *)

\* count has been called on the counter
Called == date_from = NoInput /\ result # NoResult

SameYear == start_date.year = end_date.year

\* start is chronologically on or before end
StartNotAfterEnd == num_days_from_ce(start_date) <= num_days_from_ce(end_date)

OrdinalDiff == ordinal(end_date) - ordinal(start_date)

\* the calendar days from a to b, both included, that fall on weekday w,
\* counted one day at a time
DaysWithWeekday(a, b, w) ==
    Cardinality({ n \in num_days_from_ce(a)..num_days_from_ce(b) :
                    (n - 1) % 7 = num_days_from_monday(w) })

\* the sum of the counts of the weekdays ws on a counter, or Underflow when
\* one of the calls underflows
RECURSIVE SumOfCounts(_, _)
SumOfCounts(self, ws) ==
    IF ws = <<>> THEN Value(0)
    ELSE LET c == count(self, Head(ws))
             rest == SumOfCounts(self, Tail(ws))
         IN  IF c = Underflow \/ rest = Underflow
             THEN Underflow
             ELSE Value(c.value + rest.value)

------------------------------------------------------------------------------
(* Claims on WeekdaysCounter::count *)

\* C1: for start and end in the same year with start <= end, count(w) is the
\* number of calendar days from start to end, both included, that fall on w.
C1_CountIsEnumeration ==
    (Called /\ SameYear /\ StartNotAfterEnd)
        => result = Value(DaysWithWeekday(start_date, end_date, day_of_week))

\* a range of thirty days or more in which the weekday counted occurs five times
C1_Witness ==
    /\ Called /\ SameYear /\ OrdinalDiff >= 29
    /\ result = Value(5)

\* C3: the counts of the seven weekdays add up to num_days + 1 when
\* day_of_year(end) >= day_of_year(start), and to 0 otherwise.
C3_SumOverWeekdays ==
    SumOfCounts(WeekdaysCounter_new(start_date, end_date), WeekdaysFromMonday)
        = Value(IF OrdinalDiff >= 0 THEN OrdinalDiff + 1 ELSE 0)

\* a counted range of more than a week that is not a whole number of weeks
C3_Witness ==
    /\ Called /\ OrdinalDiff > 7 /\ (OrdinalDiff + 1) % 7 = 3
    /\ result = Value(((OrdinalDiff + 1) \div 7) + 1)

\* C4: when day_of_year(end) < day_of_year(start), count returns 0 for every
\* weekday, also when both dates are in the same year.
C4_ReversedIsZero ==
    (Called /\ OrdinalDiff < 0) => result = Value(0)

\* a counted range of one year whose end is before its start
C4_Witness ==
    /\ Called /\ SameYear /\ ~StartNotAfterEnd
    /\ result = Value(0)

\* C5: on the range (d, d) count returns 1 for the weekday of d and 0 for
\* the six others.
C5_SingleDay ==
    (Called /\ start_date = end_date)
        => result = Value(IF day_of_week = weekday(start_date) THEN 1 ELSE 0)

\* a single day counted on its own weekday
C5_Witness ==
    /\ Called /\ start_date = end_date
    /\ day_of_week = weekday(start_date)
    /\ result = Value(1)

\* C6: when end is six days after start in the same year, count returns 1
\* for each weekday.
C6_OneWeek ==
    (Called /\ SameYear /\ OrdinalDiff = 6) => result = Value(1)

\* a week counted on the weekday before that of its first day
C6_Witness ==
    /\ Called /\ SameYear /\ OrdinalDiff = 6
    /\ num_days_from_monday(day_of_week)
         = (num_days_from_monday(weekday(start_date)) + 6) % 7
    /\ result = Value(1)

\* C7: when end is in a later year than start but has the smaller day of
\* the year, count returns 0 for every weekday.
C7_CrossYearIsZero ==
    (Called /\ start_date.year < end_date.year /\ OrdinalDiff < 0)
        => result = Value(0)

\* a range from December into the next January in which the weekday counted
\* does occur
C7_Witness ==
    /\ Called
    /\ start_date.month = 12 /\ end_date.month = 1
    /\ end_date.year = start_date.year + 1
    /\ DaysWithWeekday(start_date, end_date, day_of_week) > 0
    /\ result = Value(0)

\* C9: count returns a number on every pair of dates and every weekday:
\* neither u32 subtraction has a right operand larger than its left one.
C9_CountIsTotal ==
    Called => (result.kind = "value" /\ result.value >= 0)

\* a counted range in which end is before start, and one in which the
\* weekday counted is earlier in the week than that of start
C9_Witness ==
    /\ Called /\ result.kind = "value"
    /\ ~StartNotAfterEnd
    /\ num_days_from_monday(day_of_week)
         < num_days_from_monday(weekday(start_date))

\* C10: when day_of_year(end) >= day_of_year(start), count(w) is at least 0
\* and at most num_days + 1.
C10_CountWithinRange ==
    (Called /\ OrdinalDiff >= 0)
        => /\ result.kind = "value"
           /\ result.value >= 0
           /\ result.value <= OrdinalDiff + 1

\* a single day counted on its weekday: the count reaches num_days + 1
C10_Witness ==
    /\ Called /\ OrdinalDiff = 0
    /\ result = Value(OrdinalDiff + 1)

\* C15: when num_days = day_of_year(end) - day_of_year(start) >= 0, with
\* start_offset = (index(w) - index(weekday(start))) mod 7 and
\* n = num_days + 1, count(w) is floor(n / 7), plus 1 when
\* start_offset < n mod 7: the n mod 7 weekdays from that of start on get
\* the extra occurrence.
C15_WeeksPlusRemainder ==
    (Called /\ OrdinalDiff >= 0)
        => LET n == OrdinalDiff + 1
               start_offset ==
                   (num_days_from_monday(day_of_week)
                      - num_days_from_monday(weekday(start_date))) % 7
           IN  result = Value((n \div 7)
                                + (IF start_offset < n % 7 THEN 1 ELSE 0))

\* thirteen days from a Saturday counted on Friday: one occurrence, the
\* other weekdays having two
C15_Witness ==
    /\ Called /\ OrdinalDiff = 12
    /\ weekday(start_date) = "Sat" /\ day_of_week = "Fri"
    /\ result = Value(1)

------------------------------------------------------------------------------
(* Claims on count_sundays *)

CalledSundays == date_from # NoInput /\ result # NoResult

AllDigits(s) == \A i \in 1..Len(s) : IsDigit(s[i])

\* s is two digits, '-', two digits, '-', four digits
IsDDMMYYYY(s) ==
    /\ Len(s) = 10
    /\ s[3] = "-" /\ s[6] = "-"
    /\ AllDigits(SubSeq(s, 1, 2))
    /\ AllDigits(SubSeq(s, 4, 5))
    /\ AllDigits(SubSeq(s, 7, 10))

\* s is one or two digits, '-', one or two digits, '-', one to four digits
IsDMY(s) ==
    LET dashes == { i \in 1..Len(s) : s[i] = "-" }
    IN  /\ Cardinality(dashes) = 2
        /\ LET i == CHOOSE i \in dashes : \A j \in dashes : i <= j
               j == CHOOSE j \in dashes : \A i2 \in dashes : i2 <= j
           IN  /\ i - 1 \in 1..2
               /\ j - i - 1 \in 1..2
               /\ Len(s) - j \in 1..4
               /\ AllDigits(SubSeq(s, 1, i - 1))
               /\ AllDigits(SubSeq(s, i + 1, j - 1))
               /\ AllDigits(SubSeq(s, j + 1, Len(s)))

\* the day, month and year a string of that shape spells
DateSpelled(s) ==
    LET dashes == { i \in 1..Len(s) : s[i] = "-" }
        i == CHOOSE i \in dashes : \A j \in dashes : i <= j
        j == CHOOSE j \in dashes : \A i2 \in dashes : i2 <= j
    IN  NaiveDate(ToNumber(SubSeq(s, j + 1, Len(s))),
                  ToNumber(SubSeq(s, i + 1, j - 1)),
                  ToNumber(SubSeq(s, 1, i - 1)))

IsCalendarDate(dt) ==
    /\ dt.month \in 1..12
    /\ dt.day \in 1..31
    /\ dt.month \in {4, 6, 9, 11} => dt.day <= 30
    /\ dt.month = 2 => dt.day <= 29
    /\ (dt.month = 2 /\ dt.day = 29)
         => (dt.year % 4 = 0 /\ (dt.year % 100 # 0 \/ dt.year % 400 = 0))

\* a valid "DD-MM-YYYY" date
ValidDDMMYYYY(s) == IsDDMMYYYY(s) /\ IsCalendarDate(DateSpelled(s))

\* a valid date whose day and month may lack the zero padding and whose
\* year may have fewer than four digits
ValidDMY(s) == IsDMY(s) /\ IsCalendarDate(DateSpelled(s))

\* C2: for two valid "DD-MM-YYYY" dates with date_from on or before date_to,
\* whatever their years, count_sundays returns the number of Sundays from
\* date_from to date_to, both included.
C2_SundaysOfAnyRange ==
    (/\ CalledSundays
     /\ ValidDDMMYYYY(date_from) /\ ValidDDMMYYYY(date_to)
     /\ num_days_from_ce(DateSpelled(date_from))
          <= num_days_from_ce(DateSpelled(date_to)))
        => result = Ok(DaysWithWeekday(DateSpelled(date_from),
                                       DateSpelled(date_to), "Sun"))

------------------------------------------------------------------------------
(* Claims on the ordinal numbers of task_01 *)

ReturnedBy(ops) == result.kind = "returned" /\ result.op \in ops

CheckedConstructors == {"wrapped::try_from", "wrapped2::try_into_ordinal"}

\* C11: the checked constructors return Ok(Ordinal(v)) exactly when v > 0
\* and Err otherwise, for each integer type, so an Ordinal they return holds
\* a value >= 1; wrapped2's ordinal(v) returns Err(ConvertError) exactly when
\* v <= 0.
C11_CheckedConstructors ==
    /\ ReturnedBy(CheckedConstructors) =>
         /\ result.value.kind = "Ok" <=> input.value > 0
         /\ result.value.kind = "Err" <=> input.value <= 0
         /\ result.value.kind = "Ok" =>
              /\ result.value.value = Ordinal(input.value)
              /\ result.value.value.inner >= 1
    /\ ReturnedBy({"wrapped2::ordinal"}) =>
         /\ result.value = Err("ConvertError") <=> input.value <= 0
         /\ result.value.kind = "Ok" <=> input.value > 0

\* 0 of an unsigned type is refused by a checked constructor
C11_Witness ==
    /\ ReturnedBy(CheckedConstructors)
    /\ Unsigned(input.typ) /\ input.value = 0
    /\ result.value.kind = "Err"

Abs(n) == IF n < 0 THEN 0 - n ELSE n

\* the suffix of an ordinal number, from its absolute value
SuffixOfNumber(n) ==
    LET a == Abs(n)
    IN  IF a % 10 = 1 /\ a % 100 # 11 THEN <<"s", "t">>
        ELSE IF a % 10 = 2 /\ a % 100 # 12 THEN <<"n", "d">>
        ELSE IF a % 10 = 3 /\ a % 100 # 13 THEN <<"r", "d">>
        ELSE <<"t", "h">>

\* s is the decimal numeral of n: its digits, without zeros in front, after
\* a '-' when n is negative
IsNumeralOf(s, n) ==
    LET digits == IF n < 0 THEN Tail(s) ELSE s
    IN  /\ Len(s) >= (IF n < 0 THEN 2 ELSE 1)
        /\ n < 0 => s[1] = "-"
        /\ AllDigits(digits)
        /\ Len(digits) > 1 => digits[1] # "0"
        /\ ToNumber(digits) = Abs(n)

\* text is the numeral of n followed by the suffix of n
IsOrdinalOf(text, n) ==
    /\ Len(text) >= 3
    /\ IsNumeralOf(SubSeq(text, 1, Len(text) - 2), n)
    /\ SubSeq(text, Len(text) - 1, Len(text)) = SuffixOfNumber(n)

\* C12: an ordinal formatted for n is the decimal digits of n followed by
\* "st", "nd", "rd" or "th" chosen by |n| mod 10 and |n| mod 100; in
\* simple.rs 0 gives "0th" and a negative n the suffix of |n|.
C12_NumeralAndSuffix ==
    /\ ReturnedBy({"simple::to_string", "simple::ordinal", "checked::to_string"})
         => IsOrdinalOf(result.value, input.value)
    /\ (ReturnedBy({"wrapped2::ordinal"}) /\ result.value.kind = "Ok")
         => IsOrdinalOf(result.value.value, input.value)
    /\ (ReturnedBy({"simple::to_string"}) /\ input.value = 0)
         => result.value = <<"0", "t", "h">>
    /\ (ReturnedBy({"simple::to_string"}) /\ input.value = -1)
         => result.value = <<"-", "1", "s", "t">>

\* -112 formatted by simple.rs: the suffix of 112
C12_Witness ==
    /\ ReturnedBy({"simple::to_string"})
    /\ input.value = -112
    /\ result.value = <<"-", "1", "1", "2", "t", "h">>

------------------------------------------------------------------------------
(* Claims on the obfuscation of task_03 *)

Obfuscated == result.kind = "returned" /\ result.op = "obfuscate"

AtSigns(s) == { i \in 1..Len(s) : s[i] = "@" }

\* s holds exactly one '@', after at least one character
OneAtAfterLocal(s) == Cardinality(AtSigns(s)) = 1 /\ s[1] # "@"

\* what the claim gives for such a string
ExpectedEmail(s) ==
    LET at == CHOOSE i \in AtSigns(s) : TRUE
        local == SubSeq(s, 1, at - 1)
    IN  (IF Len(local) <= 2
         THEN local
         ELSE <<local[1], "*", "*", "*", "*", "*", local[Len(local)]>>)
          \o SubSeq(s, at, Len(s))

\* C13: an input with exactly one '@' and a non-empty local part is
\* obfuscated as an email: a local part of 1 or 2 characters is unchanged, a
\* longer one becomes its first character, five '*' and its last character;
\* the '@' and the domain are unchanged.
C13_EmailObfuscation ==
    (Obfuscated /\ OneAtAfterLocal(input))
        => result.value = Ok(ExpectedEmail(input))

\* a local part of four characters, or more, that does not end as it begins
C13_Witness ==
    /\ Obfuscated /\ OneAtAfterLocal(input)
    /\ \E at \in AtSigns(input) :
          /\ at >= 5
          /\ input[1] # input[at - 1]
          /\ result.value
                = Ok(<<input[1], "*", "*", "*", "*", "*", input[at - 1]>>
                       \o SubSeq(input, at, Len(input)))

\* s is digit groups separated by single spaces, after a '+' or not
IsPhoneNumber(s) ==
    LET body == IF s # <<>> /\ s[1] = "+" THEN Tail(s) ELSE s
    IN  /\ body # <<>>
        /\ \A i \in 1..Len(body) : IsDigit(body[i]) \/ body[i] = " "
        /\ body[1] # " " /\ body[Len(body)] # " "
        /\ \A i \in 1..(Len(body) - 1) : ~(body[i] = " " /\ body[i + 1] = " ")

\* what the claim gives for such a string, character by character
ExpectedPhone(s) ==
    [i \in 1..Len(s) |->
        IF s[i] = "+" THEN "+"
        ELSE IF s[i] = " " THEN "-"
        ELSE IF Cardinality({ j \in (i + 1)..Len(s) : IsDigit(s[j]) }) < 4
        THEN s[i]
        ELSE "*"]

====
